---- MODULE Spec2Model ----
(***************************************************************************)
(* Human-in-the-loop coordination layer of the DSPy demo.                  *)
(*                                                                         *)
(* Spec         web_app.py (start_agent / run_agent / provide_human_       *)
(*              response) composed with human_in_the_loop.py (ask_human,   *)
(*              HumanInputRequest, create_queue_requester).                *)
(* SpecProvider input_provider.py, SSEInputProvider on one asyncio loop.   *)
(* SpecFanout   the producers of Spec with event_broadcaster and           *)
(*              event_stream of web_app.py.                                *)
(* SpecFaulty   SpecFanout with client queues whose put_nowait raises.     *)
(* SpecLive     Spec with the fairness of the event loop, of a worker      *)
(*              that terminates and of an observer that keeps answering.   *)
(*                                                                         *)
(* Everything runs on one asyncio event loop: a handler or a task runs     *)
(* from one suspension point to the next without interleaving, so each     *)
(* action below is one such uninterrupted stretch.  asyncio.Queue() is     *)
(* unbounded, so `await queue.put(...)` never suspends.                    *)
(*                                                                         *)
(* web_app.py:60 calls create_queue_requester without its session_id       *)
(* argument; the model follows the signature of human_in_the_loop.py:74    *)
(* and draws the session from Sessions.                                    *)
(***************************************************************************)
EXTENDS Naturals, Sequences, FiniteSets, TLC

\* ------------------------------------------------------------- bounds
MaxRuns == 2    \* POST /agent/start calls explored
MaxReq == 2     \* ask_human calls explored (one uuid4 each)
MaxCalls == 2   \* SSEInputProvider.get_input calls explored
MaxReady == 3   \* callbacks waiting in the event loop's ready queue
MaxClients == 2 \* GET /events connections explored
FanRuns == 1    \* runs explored together with the fan-out
FanReq == 1     \* asks explored together with the fan-out
OrderRuns == 2    \* runs explored for the order of delivery
OrderReq == 2     \* asks explored for the order of delivery
OrderClients == 1 \* connections explored for the order of delivery
MaxBeats == 1     \* heartbeats explored per connection

Sessions == {"s1", "s2"}
Questions == {"size?"}
Texts == {"large", "small"}
Orders == {"margherita"}

\* str(uuid.uuid4()): the n-th identifier drawn; distinct draws never collide
UuidNames == <<"u1", "u2", "u3", "u4", "u5", "u6">>
Uuid(n) == UuidNames[n]
RequestIds == {Uuid(n) : n \in 1..MaxReq}

\* what a client can post as request_id: a uuid (issued or not) or a session id
PostedIds == RequestIds \cup Sessions

NoValue == "<unset>"

\* ------------------------------------------------------------- exceptions
CancelledError == [cls |-> "CancelledError", arg |-> ""]
KeyError(k) == [cls |-> "KeyError", arg |-> k]
WorkerErrors == {[cls |-> "ValueError", arg |-> "bad input"]}

\* str(e): the message for ordinary exceptions, repr of the key for KeyError
Str(e) == IF e.cls = "KeyError" THEN "'" \o e.arg \o "'" ELSE e.arg

\* variant: an `except BaseException` clause, which also catches cancellation
CatchesBaseException(e) == TRUE

\* `except Exception`: asyncio.CancelledError derives from BaseException
CatchesException(e) == e.cls # "CancelledError"

VARIABLES
  running_tasks,     \* app.state.running_tasks: set of tracked task ids
  pending_requests,  \* app.state.pending_requests: session_id -> (id -> entry)
  request_queue,     \* app.state.request_queue
  requesters,        \* sessions a queue_requester closure exists for
  tasks,             \* the asyncio tasks made by start_agent, by task id
  next_task,         \* task ids drawn so far + 1
  next_uuid,         \* request ids drawn so far + 1
  published,         \* history: every item ever put on request_queue
  http_response,     \* the latest POST /respond: its request_id and outcome
  provider_pending,  \* SSEInputProvider.pending_requests: request_id -> entry
  calls,             \* the get_input calls, in call order
  next_call,         \* get_input calls made so far + 1
  loop_ready,        \* callbacks the event loop has still to run, oldest first
  loop_errors,       \* exceptions handed to the loop's exception handler
  sse_clients,       \* app.state.sse_clients: list of client queues, by client
  client_queue,      \* the asyncio.Queue of each GET /events connection
  clients,           \* each connection: where generate() is, and what had been
                     \* published and broadcast when it subscribed
  next_client,       \* connections made so far + 1
  delivered,         \* history: every item ever put in each client queue
  broadcaster,       \* the event_broadcaster task: "running" or "crashed"
  streamed           \* history: the SSE frames generate() has yielded, per client

webvars == <<running_tasks, pending_requests, request_queue, requesters,
             tasks, next_task, next_uuid, published, http_response>>

provvars == <<provider_pending, calls, next_call, loop_ready, loop_errors>>

fanvars == <<sse_clients, client_queue, clients, next_client, delivered,
             broadcaster, streamed>>

vars == <<webvars, provvars, fanvars>>

TaskIds == 1..MaxRuns

\* pc values of a task that is done()
Terminal == {"completed", "failed", "cancelled", "crashed"}

EmptyMap == [k \in {} |-> NoValue]

NewTask == [pc |-> "none", cancel |-> FALSE, rid |-> NoValue,
            slot |-> NoValue, answer |-> NoValue]

CallIds == 1..MaxCalls

\* a get_input call: where it is, the state of its future (unset, a result
\* or cancelled), whether its task was cancelled, what it returned, and how
\* many polls have reported its request
NewCall == [pc |-> "none", future |-> NoValue, cancel |-> FALSE,
            result |-> NoValue, polled |-> 0]

\* the state of a future that was cancelled
Cancelled == "<cancelled>"

NoResponse == [request_id |-> NoValue, status |-> "none"]

InitProvider ==
  /\ provider_pending = EmptyMap
  /\ calls = [c \in CallIds |-> NewCall]
  /\ next_call = 1
  /\ loop_ready = <<>>
  /\ loop_errors = 0

ClientIds == 1..MaxClients

\* a connection: where generate() is, whether it is suspended in
\* client_queue.get() under wait_for, and what had been published and
\* broadcast when it subscribed
NewClient == [pc |-> "none", waiting |-> FALSE, pub_at |-> 0, taken_at |-> 0]

InitFanout ==
  /\ sse_clients = <<>>
  /\ client_queue = [c \in ClientIds |-> <<>>]
  /\ clients = [c \in ClientIds |-> NewClient]
  /\ next_client = 1
  /\ delivered = [c \in ClientIds |-> <<>>]
  /\ broadcaster = "running"
  /\ streamed = [c \in ClientIds |-> <<>>]

Init ==
  /\ InitProvider
  /\ InitFanout
  /\ running_tasks = {}
  /\ pending_requests = EmptyMap
  /\ request_queue = <<>>
  /\ requesters = {}
  /\ tasks = [t \in TaskIds |-> NewTask]
  /\ next_task = 1
  /\ next_uuid = 1
  /\ published = <<>>
  /\ http_response = NoResponse

\* ------------------------------------------------------------- events
HumanInput(s, r, q) ==
  [type |-> "human_input", session_id |-> s, id |-> r, question |-> q]
TaskComplete(t, o) ==
  [type |-> "task_result", task_id |-> t, status |-> "complete", order |-> o]
TaskError(t, m) ==
  [type |-> "task_result", task_id |-> t, status |-> "error", error |-> m]

\* ------------------------------------------------------------- human_in_the_loop.py
\* create_queue_requester: the nested map is made here, once, when the
\* closure is built (lines 81-83), not when a request is made
EnsureSession(p, s) ==
  IF s \in DOMAIN p THEN p
  ELSE [k \in DOMAIN p \cup {s} |-> IF k = s THEN EmptyMap ELSE p[k]]

CreateQueueRequester(s) ==
  /\ pending_requests' = EnsureSession(pending_requests, s)
  /\ requesters' = requesters \cup {s}
  /\ UNCHANGED <<running_tasks, request_queue, tasks, next_task, next_uuid,
                 published, http_response,
                 provvars, fanvars>>

\* queue_requester lines 90-94 and 105: pending_requests[session_id][request_id] = {...}
\* the entry's 'request' is the HumanInputRequest owned by task t
RegisterRequest(p, s, r, q, t) ==
  [p EXCEPT ![s] = [k \in DOMAIN p[s] \cup {r} |->
     IF k = r THEN [request |-> t, question |-> q, sent |-> TRUE] ELSE p[s][k]]]

\* ------------------------------------------------------------- web_app.py run_agent
\* variant: the except clause logs the error and publishes nothing
RunAgentEventsSilentError(t, outcome) ==
  IF outcome.kind = "return" THEN <<TaskComplete(t, outcome.order)>> ELSE <<>>

\* what the try/except of run_agent puts on the queue for an outcome of
\* `await app.state.agent.aforward(...)`
RunAgentEvents(t, outcome) ==
  IF outcome.kind = "return" THEN <<TaskComplete(t, outcome.order)>>
  ELSE IF CatchesException(outcome.exc)
       THEN <<TaskError(t, Str(outcome.exc))>>
       ELSE <<>>

\* how the task ends: run_agent returns (completed, failed) or the exception
\* leaves it (cancelled, crashed)
RunAgentPc(outcome) ==
  IF outcome.kind = "return" THEN "completed"
  ELSE IF CatchesException(outcome.exc) THEN "failed"
  ELSE IF outcome.exc.cls = "CancelledError" THEN "cancelled"
  ELSE "crashed"

\* variant: run_agent without its finally clause
PopTaskMissing(running, t) == running

\* the finally clause: app.state.running_tasks.pop(task_id, None)
PopTask(running, t) == running \ {t}

RunAgentExit(t, outcome) ==
  /\ request_queue' = request_queue \o RunAgentEvents(t, outcome)
  /\ published' = published \o RunAgentEvents(t, outcome)
  /\ running_tasks' = PopTask(running_tasks, t)
  /\ tasks' = [tasks EXCEPT ![t].pc = RunAgentPc(outcome)]

Returned(o) == [kind |-> "return", order |-> o]
Raised(e) == [kind |-> "raise", exc |-> e]

\* variant: a pending cancellation does not stop the worker
ActiveThoughCancelled(t) == tasks[t].pc = "running"

\* variant: the worker of a failed run goes on
ActiveAfterFailure(t) == tasks[t].pc \in {"running", "failed"} /\ ~tasks[t].cancel

\* the worker can act only while its task is not waiting and no
\* cancellation is pending for it
Active(t) == tasks[t].pc = "running" /\ ~tasks[t].cancel

\* the event loop runs the task for the first time; a task cancelled before
\* its first step never enters run_agent's try block
TaskFirstStep(t) ==
  /\ tasks[t].pc = "created"
  /\ tasks' = [tasks EXCEPT ![t].pc =
                 IF tasks[t].cancel THEN "cancelled" ELSE "running"]
  /\ UNCHANGED <<running_tasks, pending_requests, request_queue, requesters,
                 next_task, next_uuid, published, http_response,
                 provvars, fanvars>>

\* aforward returns result; result.pizzas is o
WorkerReturns(t, o) ==
  /\ Active(t)
  /\ RunAgentExit(t, Returned(o))
  /\ UNCHANGED <<pending_requests, requesters, next_task, next_uuid, http_response,
                 provvars, fanvars>>

\* aforward raises e
WorkerRaises(t, e) ==
  /\ Active(t)
  /\ RunAgentExit(t, Raised(e))
  /\ UNCHANGED <<pending_requests, requesters, next_task, next_uuid, http_response,
                 provvars, fanvars>>

\* ask_human(question) through the queue_requester of session s.  The
\* KeyError of line 90 reaches the worker, which either handles it and goes
\* on or lets it end the run (propagates).
AskHuman(t, s, q, propagates) ==
  /\ Active(t)
  /\ s \in requesters
  /\ next_uuid <= MaxReq
  /\ next_uuid' = next_uuid + 1
  /\ LET r == Uuid(next_uuid) IN
     IF s \in DOMAIN pending_requests
     THEN /\ pending_requests' = RegisterRequest(pending_requests, s, r, q, t)
          /\ request_queue' = Append(request_queue, HumanInput(s, r, q))
          /\ published' = Append(published, HumanInput(s, r, q))
          /\ tasks' = [tasks EXCEPT ![t].pc = "asking", ![t].rid = r,
                                    ![t].slot = NoValue]
          /\ UNCHANGED running_tasks
     ELSE /\ UNCHANGED pending_requests
          /\ IF propagates
             THEN RunAgentExit(t, Raised(KeyError(s)))
             ELSE UNCHANGED <<request_queue, published, running_tasks, tasks>>
  /\ UNCHANGED <<requesters, next_task, http_response,
                 provvars, fanvars>>

\* the event loop resumes a suspended task: with CancelledError when
\* task.cancel() was called, else with the result of the future it awaits
TaskResume(t) ==
  /\ tasks[t].pc \in {"running", "asking"}
  /\ tasks[t].cancel \/ (tasks[t].pc = "asking" /\ tasks[t].slot # NoValue)
  /\ IF tasks[t].cancel
     THEN RunAgentExit(t, Raised(CancelledError))
     ELSE /\ tasks' = [tasks EXCEPT ![t].pc = "running",
                                    ![t].answer = tasks[t].slot]
          /\ UNCHANGED <<request_queue, published, running_tasks>>
  /\ UNCHANGED <<pending_requests, requesters, next_task, next_uuid, http_response,
                 provvars, fanvars>>

\* ------------------------------------------------------------- web_app.py start_agent
\* variant: start_agent untracks the running tasks without cancelling them
CancelExistingNone(ts, running) == ts

\* lines 79-81: task.cancel() on every tracked task that is not done
CancelExisting(ts, running) ==
  [t \in TaskIds |-> IF t \in running /\ ts[t].pc \notin Terminal
                     THEN [ts[t] EXCEPT !.cancel = TRUE] ELSE ts[t]]

\* variant: start_agent cancels the tracked tasks but leaves them in the index
UntrackExistingMissing(running) == running

\* line 82: every tracked task is popped
UntrackExisting(running) == {}

\* variant: start_agent leaves the index of pending requests alone
ClearPendingKeeps(p) == p

\* line 85: app.state.pending_requests.clear()
ClearPending(p) == EmptyMap

StartAgent ==
  /\ next_task <= MaxRuns
  /\ tasks' = [CancelExisting(tasks, running_tasks) EXCEPT ![next_task].pc = "created"]
  /\ running_tasks' = UntrackExisting(running_tasks) \cup {next_task}
  /\ pending_requests' = ClearPending(pending_requests)
  /\ next_task' = next_task + 1
  /\ UNCHANGED <<request_queue, requesters, next_uuid, published, http_response,
                 provvars, fanvars>>

\* ------------------------------------------------------------- web_app.py /respond
\* line 160 tests the request id against the top level of the map, whose
\* keys are session ids; line 161 then indexes a session's map with 'request'
RespondOutcome(p, rid) ==
  IF rid \notin DOMAIN p THEN "received"
  ELSE IF "request" \notin DOMAIN p[rid] THEN "KeyError"
  ELSE "AttributeError"   \* HumanInputRequest has no provide_response

\* variant: the handler clears the whole index whenever line 160 finds a key
RespondPendingClearsAll(p, rid) ==
  IF rid \in DOMAIN p THEN EmptyMap ELSE p

\* variant: the lookup inserts the key it misses (setdefault)
RespondPendingInserts(p, rid) ==
  IF rid \in DOMAIN p THEN p
  ELSE [k \in DOMAIN p \cup {rid} |-> IF k = rid THEN EmptyMap ELSE p[k]]

\* line 163, reached only past line 161
RespondPending(p, rid) ==
  IF rid \in DOMAIN p /\ "request" \in DOMAIN p[rid]
  THEN [k \in DOMAIN p \ {rid} |-> p[k]]
  ELSE p

ProvideHumanResponse(rid, x) ==
  /\ http_response' = [request_id |-> rid,
                       status |-> RespondOutcome(pending_requests, rid)]
  /\ pending_requests' = RespondPending(pending_requests, rid)
  /\ UNCHANGED <<running_tasks, request_queue, requesters, tasks, next_task,
                 next_uuid, published,
                 provvars, fanvars>>

\* ------------------------------------------------------------- input_provider.py
\* SSEInputProvider.get_input up to `await future` (lines 40-52); the id of
\* the n-th call is the n-th uuid4
GetInput(q) ==
  /\ next_call <= MaxCalls
  /\ provider_pending' =
       [k \in DOMAIN provider_pending \cup {Uuid(next_call)} |->
          IF k = Uuid(next_call)
          THEN [future |-> next_call, question |-> q, sent |-> FALSE]
          ELSE provider_pending[k]]
  /\ calls' = [calls EXCEPT ![next_call].pc = "waiting"]
  /\ next_call' = next_call + 1
  /\ UNCHANGED <<loop_ready, loop_errors, webvars, fanvars>>

\* variant: provide_response takes the future of some pending entry, not
\* of the entry of request_id
ScheduledAny(p, rid, x) ==
  IF rid \in DOMAIN p
  THEN <<[cb |-> "set_result", future |-> p[CHOOSE k \in DOMAIN p : TRUE].future,
          value |-> x]>>
  ELSE <<>>

\* provide_response lines 60-64: what call_soon_threadsafe adds to the loop
Scheduled(p, rid, x) ==
  IF rid \in DOMAIN p
  THEN <<[cb |-> "set_result", future |-> p[rid].future, value |-> x]>>
  ELSE <<>>

ProvideResponse(rid, x) ==
  /\ Len(loop_ready) < MaxReady
  /\ loop_ready' = loop_ready \o Scheduled(provider_pending, rid, x)
  /\ UNCHANGED <<provider_pending, calls, next_call, loop_errors, webvars, fanvars>>

\* variant: get_input without its finally clause
PopRequestMissing(p, rid) == p

\* the finally clause of get_input: self.pending_requests.pop(request_id, None)
PopRequest(p, rid) == [k \in DOMAIN p \ {rid} |-> p[k]]

\* the task that awaits get_input is cancelled (task.cancel()): a future
\* that is still pending is cancelled, which schedules the task; a future
\* that is done has scheduled it already.  The task gets CancelledError when
\* it is resumed.
CancelCall(c) ==
  /\ calls[c].pc = "waiting"
  /\ ~calls[c].cancel
  /\ IF calls[c].future = NoValue
     THEN /\ calls' = [calls EXCEPT ![c].cancel = TRUE, ![c].future = Cancelled]
          /\ loop_ready' = Append(loop_ready, [cb |-> "wakeup", future |-> c])
     ELSE /\ calls' = [calls EXCEPT ![c].cancel = TRUE]
          /\ UNCHANGED loop_ready
  /\ UNCHANGED <<provider_pending, next_call, loop_errors, webvars, fanvars>>

\* the requests get_pending_requests returns: the entries not yet sent
Unsent(p) == {k \in DOMAIN p : ~p[k].sent}

\* variant: get_pending_requests does not mark what it returns
MarkSentNever(p) == p

\* line 76: data['sent'] = True for every entry returned
MarkSent(p) == [k \in DOMAIN p |-> [p[k] EXCEPT !.sent = TRUE]]

\* get_pending_requests, lines 66-77
GetPendingRequests ==
  /\ calls' = [c \in CallIds |->
                IF Uuid(c) \in Unsent(provider_pending)
                THEN [calls[c] EXCEPT !.polled = calls[c].polled + 1]
                ELSE calls[c]]
  /\ provider_pending' = MarkSent(provider_pending)
  /\ UNCHANGED <<next_call, loop_ready, loop_errors, webvars, fanvars>>

\* how get_input leaves `await future` when its task is resumed
ResumedPc(call) == IF call.cancel THEN "cancelled" ELSE "returned"
ResumedResult(call) == IF call.cancel THEN NoValue ELSE call.future

\* the event loop runs its oldest callback.  future.set_result on a pending
\* future stores the value and schedules the waiter; on a future that is
\* already done or cancelled it raises InvalidStateError, which the loop
\* reports.  A wakeup resumes get_input at its await (lines 52-56): it
\* returns the result or CancelledError leaves it, through the finally.
LoopRunOnce ==
  /\ loop_ready # <<>>
  /\ LET h == Head(loop_ready) IN
     IF h.cb = "set_result"
     THEN IF calls[h.future].future = NoValue
          THEN /\ calls' = [calls EXCEPT ![h.future].future = h.value]
               /\ loop_ready' = Append(Tail(loop_ready),
                                       [cb |-> "wakeup", future |-> h.future])
               /\ UNCHANGED <<provider_pending, loop_errors>>
          ELSE /\ loop_errors' = loop_errors + 1
               /\ loop_ready' = Tail(loop_ready)
               /\ UNCHANGED <<provider_pending, calls>>
     ELSE /\ calls' = [calls EXCEPT ![h.future].pc = ResumedPc(calls[h.future]),
                                    ![h.future].result = ResumedResult(calls[h.future])]
          /\ provider_pending' = PopRequest(provider_pending, Uuid(h.future))
          /\ loop_ready' = Tail(loop_ready)
          /\ UNCHANGED loop_errors
  /\ UNCHANGED <<next_call, webvars, fanvars>>

\* ------------------------------------------------------------- web_app.py fan-out
Range(f) == {f[i] : i \in DOMAIN f}

\* items the broadcaster has taken off request_queue so far
Taken == Len(published) - Len(request_queue)

\* variant: a new connection is first sent everything published so far
InitialQueueReplay == published

\* line 122: client_queue = asyncio.Queue()
InitialQueue == <<>>

\* GET /events, lines 121-123: a queue of its own, appended to sse_clients
EventStream ==
  /\ next_client <= MaxClients
  /\ sse_clients' = Append(sse_clients, next_client)
  /\ client_queue' = [client_queue EXCEPT ![next_client] = InitialQueue]
  /\ delivered' = [delivered EXCEPT ![next_client] = InitialQueue]
  /\ clients' = [clients EXCEPT ![next_client] =
                   [pc |-> "streaming", waiting |-> FALSE,
                    pub_at |-> Len(published), taken_at |-> Taken]]
  /\ next_client' = next_client + 1
  /\ UNCHANGED <<broadcaster, streamed, webvars, provvars>>

\* lines 145-146: if client_queue in sse_clients: sse_clients.remove(client_queue)
RemoveClient(list, c) == SelectSeq(list, LAMBDA d : d # c)

\* lines 137-138: f"data: {json.dumps(item)}\n\n"
Frame(item) == [data |-> item]

\* line 142: "data: {}\n\n", the frame of an empty object
Heartbeat == Frame(EmptyMap)

\* the heartbeats among the frames yielded to client c
Beats(c) == Len(SelectSeq(streamed[c], LAMBDA f : f = Heartbeat))

\* generate(), lines 134-138: client_queue.get() returns the oldest item of
\* the client's queue, at once or after a wait, and the item is sent
GenerateItem(c) ==
  /\ clients[c].pc = "streaming"
  /\ client_queue[c] # <<>>
  /\ client_queue' = [client_queue EXCEPT ![c] = Tail(client_queue[c])]
  /\ streamed' = [streamed EXCEPT ![c] = Append(@, Frame(Head(client_queue[c])))]
  /\ clients' = [clients EXCEPT ![c].waiting = FALSE]
  /\ UNCHANGED <<sse_clients, next_client, delivered, broadcaster,
                 webvars, provvars>>

\* line 134: client_queue.get() finds the queue empty and suspends, with
\* the timer of wait_for running
GenerateWait(c) ==
  /\ clients[c].pc = "streaming"
  /\ ~clients[c].waiting
  /\ client_queue[c] = <<>>
  /\ Beats(c) < MaxBeats
  /\ clients' = [clients EXCEPT ![c].waiting = TRUE]
  /\ UNCHANGED <<sse_clients, client_queue, next_client, delivered, broadcaster,
                 streamed, webvars, provvars>>

\* variant: the get() that the timeout cancels has taken an item, which is
\* lost
AfterTimeoutDrops(q) == IF q = <<>> THEN q ELSE Tail(q)

\* the client's queue after wait_for has timed out: the cancelled get()
\* takes nothing, also when an item arrived just before the timer fired
AfterTimeout(q) == q

\* lines 140-142: the timer of wait_for fires before get() has returned
GenerateHeartbeat(c) ==
  /\ clients[c].pc = "streaming"
  /\ clients[c].waiting
  /\ client_queue' = [client_queue EXCEPT ![c] = AfterTimeout(client_queue[c])]
  /\ streamed' = [streamed EXCEPT ![c] = Append(@, Heartbeat)]
  /\ clients' = [clients EXCEPT ![c].waiting = FALSE]
  /\ UNCHANGED <<sse_clients, next_client, delivered, broadcaster,
                 webvars, provvars>>

\* generate(), lines 129-130 and 143-146: the client has gone, the loop
\* ends and the finally clause unsubscribes the queue
GenerateDisconnect(c) ==
  /\ clients[c].pc = "streaming"
  /\ clients' = [clients EXCEPT ![c].pc = "closed", ![c].waiting = FALSE]
  /\ sse_clients' = RemoveClient(sse_clients, c)
  /\ UNCHANGED <<client_queue, next_client, delivered, broadcaster, streamed,
                 webvars, provvars>>

\* variant: the broadcaster takes the newest item of the channel
NextItemNewest(q) == q[Len(q)]

\* line 24: item = await app.state.request_queue.get()
NextItem(q) == Head(q)

\* variant: the for loop runs over sse_clients itself, not over a copy, so
\* the removal of a queue whose put_nowait raised makes the loop skip the
\* queue that follows it
ReceiversLiveList(list, failing) ==
  LET Run(k) == Cardinality({i \in 1..(k - 1) : \A j \in i..(k - 1) : list[j] \in failing})
  IN {list[k] : k \in {j \in DOMAIN list : list[j] \notin failing /\ Run(j) % 2 = 0}}

\* variant: only the first client of the list is served
ReceiversFirstOnly(list, failing) ==
  IF list # <<>> /\ list[1] \notin failing THEN {list[1]} ELSE {}

\* variant: no try around put_nowait, the first failure ends the for loop
ReceiversUntilFailure(list, failing) ==
  {list[i] : i \in {j \in DOMAIN list : \A k \in 1..j : list[k] \notin failing}}

\* lines 27-29: the clients of the copied list whose put_nowait succeeds
Receivers(list, failing) ==
  {list[i] : i \in {j \in DOMAIN list : list[j] \notin failing}}

\* lines 30-33: the clients whose put_nowait raised are removed
Pruned(list, failing) == SelectSeq(list, LAMBDA d : d \notin failing)

\* one turn of event_broadcaster's loop, lines 21-40: no suspension between
\* taking the item and the end of the for loop.  failing is the set of
\* subscribed queues whose put_nowait raises.
EventBroadcaster(failing) ==
  /\ broadcaster = "running"
  /\ request_queue # <<>>
  /\ failing \subseteq Range(sse_clients)
  /\ LET item == NextItem(request_queue)
         got == Receivers(sse_clients, failing)
     IN /\ client_queue' = [c \in ClientIds |->
              IF c \in got THEN Append(client_queue[c], item) ELSE client_queue[c]]
        /\ delivered' = [c \in ClientIds |->
              IF c \in got THEN Append(delivered[c], item) ELSE delivered[c]]
  /\ sse_clients' = Pruned(sse_clients, failing)
  /\ request_queue' = Tail(request_queue)
  /\ UNCHANGED <<broadcaster, streamed, clients, next_client, running_tasks,
                 pending_requests, requesters, tasks, next_task, next_uuid,
                 published, http_response, provvars>>

Next ==
  \/ \E s \in Sessions : CreateQueueRequester(s)
  \/ StartAgent
  \/ \E t \in TaskIds : TaskFirstStep(t)
  \/ \E t \in TaskIds, o \in Orders : WorkerReturns(t, o)
  \/ \E t \in TaskIds, e \in WorkerErrors : WorkerRaises(t, e)
  \/ \E t \in TaskIds, s \in Sessions, q \in Questions, b \in BOOLEAN :
       AskHuman(t, s, q, b)
  \/ \E t \in TaskIds : TaskResume(t)
  \/ \E rid \in PostedIds, x \in Texts : ProvideHumanResponse(rid, x)

Spec == Init /\ [][Next]_vars

\* what a caller can pass to provide_response: a uuid, issued or not
ProviderIds == {Uuid(n) : n \in 1..MaxCalls}

NextProvider ==
  \/ \E q \in Questions : GetInput(q)
  \/ \E rid \in ProviderIds, x \in Texts : ProvideResponse(rid, x)
  \/ LoopRunOnce

SpecProvider == Init /\ [][NextProvider]_vars

\* the provider with the poll of unsent requests
NextPoll ==
  \/ NextProvider
  \/ GetPendingRequests

SpecPoll == Init /\ [][NextPoll]_vars

\* the provider with callers that can be cancelled
NextCancel ==
  \/ NextProvider
  \/ \E c \in CallIds : CancelCall(c)

SpecCancel == Init /\ [][NextCancel]_vars

\* the session the fan-out specifications make requests under
FanoutSessions == {"s1"}

\* the producers of the event channel, with at most `runs` runs started and
\* `asks` questions asked
Producers(runs, asks) ==
  \/ \E s \in FanoutSessions : CreateQueueRequester(s)
  \/ (next_task <= runs /\ StartAgent)
  \/ \E t \in TaskIds : TaskFirstStep(t)
  \/ \E t \in TaskIds, o \in Orders : WorkerReturns(t, o)
  \/ \E t \in TaskIds, e \in WorkerErrors : WorkerRaises(t, e)
  \/ \E t \in TaskIds, s \in FanoutSessions, q \in Questions, b \in BOOLEAN :
       (next_uuid <= asks /\ AskHuman(t, s, q, b))

\* the observers, with at most n connections made
Consumers(n) ==
  \/ (next_client <= n /\ EventStream)
  \/ \E c \in ClientIds : GenerateItem(c)
  \/ \E c \in ClientIds : GenerateDisconnect(c)

\* asyncio.Queue() is unbounded and never shut down: put_nowait cannot raise
NextFanout ==
  \/ Producers(FanRuns, FanReq)
  \/ Consumers(MaxClients)
  \/ EventBroadcaster({})

SpecFanout == Init /\ [][NextFanout]_vars

\* the same with queues whose put_nowait raises
NextFaulty ==
  \/ Producers(FanRuns, FanReq)
  \/ Consumers(MaxClients)
  \/ \E failing \in SUBSET ClientIds : EventBroadcaster(failing)

SpecFaulty == Init /\ [][NextFaulty]_vars

\* several events in flight to one observer
NextOrder ==
  \/ Producers(OrderRuns, OrderReq)
  \/ Consumers(OrderClients)
  \/ EventBroadcaster({})

SpecOrder == Init /\ [][NextOrder]_vars

\* an observer whose generator waits for items and sends heartbeats, with
\* runs whose worker ends without asking
NextStream ==
  \/ (next_task <= FanRuns /\ StartAgent)
  \/ \E t \in TaskIds : TaskFirstStep(t)
  \/ \E t \in TaskIds, o \in Orders : WorkerReturns(t, o)
  \/ \E t \in TaskIds, e \in WorkerErrors : WorkerRaises(t, e)
  \/ Consumers(OrderClients)
  \/ EventBroadcaster({})
  \/ \E c \in ClientIds : GenerateWait(c)
  \/ \E c \in ClientIds : GenerateHeartbeat(c)

\* the timer of wait_for fires unless get() returns first
StreamFairness == \A c \in ClientIds : WF_vars(GenerateHeartbeat(c))

SpecStream == Init /\ [][NextStream]_vars /\ StreamFairness

\* the event loop runs every task that is ready: a new task gets its first
\* step, a task whose future is done or that was cancelled is resumed
LoopFairness ==
  /\ \A t \in TaskIds : WF_vars(TaskFirstStep(t))
  /\ \A t \in TaskIds : WF_vars(TaskResume(t))

SpecLoop == Spec /\ LoopFairness

\* moreover the worker ends its run unless it waits or is cancelled, and the
\* observer keeps posting answers
Fairness ==
  /\ LoopFairness
  /\ \A t \in TaskIds : WF_vars(\E o \in Orders : WorkerReturns(t, o))
  /\ \A rid \in PostedIds : WF_vars(\E x \in Texts : ProvideHumanResponse(rid, x))

SpecLive == Spec /\ Fairness

\* ============================================================= claims
\* request ids registered under session s
Registered(s) == IF s \in DOMAIN pending_requests
                 THEN DOMAIN pending_requests[s] ELSE {}

\* task t is suspended in ask_human on request r, and r is in the index
Waiting(t, r) ==
  /\ tasks[t].pc = "asking"
  /\ tasks[t].rid = r
  /\ \E s \in Sessions : r \in Registered(s)

\* the task_result events run t has put on the event channel
TaskResults(t) ==
  SelectSeq(published, LAMBDA ev : ev.type = "task_result" /\ ev.task_id = t)

\* C1: once ask has registered request r and emitted its human_input event,
\* a POST /respond naming r with text x writes x into the answer slot the
\* suspended ask is waiting on, so that the ask returns exactly x.
C1_RespondReachesAsk ==
  [][\A r \in RequestIds, x \in Texts, t \in TaskIds :
       (ProvideHumanResponse(r, x) /\ Waiting(t, r)) => tasks'[t].slot = x]_vars

\* a resolve for the future of call c has been accepted: its set_result is
\* scheduled or has run
Accepted(c) ==
  \/ calls[c].future \in Texts
  \/ \E i \in 1..Len(loop_ready) :
       loop_ready[i].cb = "set_result" /\ loop_ready[i].future = c

\* C2: a request is resolved at most once: after a resolve for r has been
\* accepted, a further provide_response for r is a no-op (nothing more is
\* scheduled to write the slot) and no write of the slot ever raises.
C2_ResolvedAtMostOnce ==
  /\ [](loop_errors = 0)
  /\ [][\A c \in CallIds, x \in Texts :
          (ProvideResponse(Uuid(c), x) /\ Accepted(c)) => UNCHANGED loop_ready]_vars

\* POST /respond with request_id rid is a resolve made for session b: it
\* names b's map or a request registered under b
MadeFor(rid, b) == rid = b \/ rid \in Registered(b)

C4_AskRegisters ==
  [][\A t \in TaskIds, s \in Sessions, q \in Questions, b \in BOOLEAN :
       AskHuman(t, s, q, b)
       => /\ Uuid(next_uuid) \notin Registered(s)
          /\ s \in DOMAIN pending_requests'
          /\ Uuid(next_uuid) \in DOMAIN pending_requests'[s]
          /\ published' = Append(published, HumanInput(s, Uuid(next_uuid), q))
          /\ tasks'[t].pc = "asking"]_vars

\* C5: POST /respond answers with the acknowledgement and never raises,
\* whatever request_id it is given.
C5_RespondAcknowledges == http_response.status \in {"none", "received"}

\* rid is absent from the index: no key of the map and no registered request
Absent(rid) ==
  /\ rid \notin DOMAIN pending_requests
  /\ \A s \in Sessions : rid \notin Registered(s)

\* C6: a resolve whose request id is absent from the index leaves the
\* pending index, every task (so every suspended ask), the event channel
\* and the running-task index unchanged.
C6_AbsentResolveNoOp ==
  [][\A rid \in PostedIds, x \in Texts :
       (ProvideHumanResponse(rid, x) /\ Absent(rid))
       => UNCHANGED <<pending_requests, tasks, request_queue, published,
                      running_tasks>>]_vars

\* C6 witness: /respond was acknowledged for an id whose ask is still
\* suspended although a new start dropped it from the index
C6_Witness ==
  \E t \in TaskIds :
    /\ tasks[t].pc = "asking"
    /\ http_response.request_id = tasks[t].rid
    /\ http_response.status = "received"
    /\ Absent(tasks[t].rid)
    /\ pending_requests # EmptyMap

\* C7: a run that a newer start cancelled never has a task_result event on
\* the event channel.
C7_CancelledRunSilent ==
  \A t \in TaskIds : tasks[t].cancel => TaskResults(t) = <<>>

\* C7 witness: a run was cancelled while suspended in ask and has ended,
\* and another run has published its result
C7_Witness ==
  \E t \in TaskIds, u \in TaskIds :
    /\ tasks[t].cancel /\ tasks[t].pc = "cancelled" /\ tasks[t].rid # NoValue
    /\ tasks[u].pc = "completed"

\* C8: a run that finished without being cancelled has exactly one
\* task_result event with its task_id on the channel: complete when the
\* worker returned, error when it raised.
C8_OneTerminalEvent ==
  \A t \in TaskIds :
    (tasks[t].pc \in Terminal /\ ~tasks[t].cancel)
    => /\ Len(TaskResults(t)) = 1
       /\ tasks[t].pc = "completed" => TaskResults(t)[1].status = "complete"
       /\ tasks[t].pc # "completed" => TaskResults(t)[1].status = "error"

\* C8 witness: one run has completed and another has failed
C8_Witness ==
  \E t \in TaskIds, u \in TaskIds :
    /\ tasks[t].pc = "completed" /\ ~tasks[t].cancel
    /\ tasks[u].pc = "failed" /\ ~tasks[u].cancel

\* C9: the running-task index never holds more than one run, and a start
\* requests cancellation of every tracked run and leaves only the new run
\* in the index.
C9_SingleTrackedRun ==
  /\ [](Cardinality(running_tasks) <= 1)
  /\ [][StartAgent => /\ running_tasks' = {next_task}
                      /\ \A t \in running_tasks : tasks'[t].cancel]_vars

\* C9 witness: a start superseded a run that was still tracked
C9_Witness ==
  \E t \in TaskIds, u \in running_tasks :
    /\ t # u
    /\ tasks[t].cancel
    /\ tasks[t].pc \notin Terminal

\* C10: when the worker raises an exception with message m, a task_result
\* event with status error and error text m is put for that task_id, the
\* task ends as failed (the exception was caught) and is no longer tracked.
C10_WorkerErrorPublished ==
  [][\A t \in TaskIds, e \in WorkerErrors :
       WorkerRaises(t, e)
       => /\ published' = Append(published, TaskError(t, e.arg))
          /\ request_queue' = Append(request_queue, TaskError(t, e.arg))
          /\ tasks'[t].pc = "failed"
          /\ t \notin running_tasks']_vars

\* C10 witness: a run that was tracked has failed with "bad input"
C10_Witness ==
  \E t \in TaskIds :
    /\ tasks[t].pc = "failed"
    /\ t \notin running_tasks
    /\ TaskResults(t) = <<TaskError(t, "bad input")>>

\* a start later than the one that created run t has been handled
Superseded(t) == tasks[t].pc # "none" /\ next_task > t + 1

\* C11: a run that is suspended inside ask when a later run is started is
\* released by cancellation: its ask does not stay suspended, the run ends
\* as cancelled.
C11_SupersededAskReleased ==
  \A t \in TaskIds :
    (tasks[t].pc = "asking" /\ Superseded(t)) ~> (tasks[t].pc = "cancelled")

\* C11 witness: a run that had asked has ended as cancelled while the run
\* that superseded it is tracked
C11_Witness ==
  \E t \in TaskIds, u \in running_tasks :
    /\ u > t
    /\ tasks[t].pc = "cancelled"
    /\ tasks[t].rid # NoValue

\* C12: with the event loop and the worker making progress and the observer
\* posting an answer to every question, a run that was started and is never
\* superseded eventually has a task_result event on the channel, and no ask
\* of such a run stays suspended for ever.
C12_RunEventuallyReports ==
  \A t \in TaskIds :
    /\ (tasks[t].pc # "none") ~> (TaskResults(t) # <<>> \/ tasks[t].cancel)
    /\ (tasks[t].pc = "asking") ~> (tasks[t].pc # "asking")

\* the broadcaster takes the oldest item off the event channel in this step
\* (every other step leaves the channel alone or appends to it)
Broadcast == request_queue # <<>> /\ request_queue' = Tail(request_queue)

\* C13: every item the broadcaster takes off the event channel is put into
\* the queue of every observer subscribed at the moment of that broadcast.
C13_BroadcastReachesAll ==
  [][Broadcast => \A c \in Range(sse_clients) :
                    client_queue'[c] = Append(client_queue[c], Head(request_queue))]_vars

\* C13 witness: one item has been put into the queues of two subscribed
\* observers
C13_Witness ==
  \E c \in Range(sse_clients), d \in Range(sse_clients) :
    /\ c # d
    /\ delivered[c] # <<>>
    /\ delivered[d] # <<>>
    /\ delivered[c][1] = delivered[d][1]

\* position at which event ev was put on the event channel (every event
\* carries a fresh request id or the id of the run that ended)
Pos(ev) == CHOOSE k \in DOMAIN published : published[k] = ev

\* two events have one producer: the requester of their session for
\* questions, run_agent of their task for results
SameProducer(e, f) ==
  /\ e.type = f.type
  /\ IF e.type = "human_input" THEN e.session_id = f.session_id
                                ELSE e.task_id = f.task_id

\* items of sequence q are in the order in which they were published
InChannelOrder(q) ==
  \A i \in DOMAIN q, j \in DOMAIN q : i < j => Pos(q[i]) < Pos(q[j])

\* C14: the events put into an observer's queue are in the order in which
\* they were put on the event channel, hence so are the events of any one
\* producer, and the observer's generator takes them from its queue in
\* that order.
C14_FifoPerObserver ==
  \A c \in ClientIds :
    /\ \A i \in DOMAIN delivered[c] : delivered[c][i] \in Range(published)
    /\ InChannelOrder(delivered[c])
    /\ Len(client_queue[c]) <= Len(delivered[c])
    /\ client_queue[c] = SubSeq(delivered[c],
                                Len(delivered[c]) - Len(client_queue[c]) + 1,
                                Len(delivered[c]))

\* C14 witness: two questions of one producer have reached an observer's
\* queue and the first of them has been streamed
C14_Witness ==
  \E c \in ClientIds :
    /\ Len(delivered[c]) = 2
    /\ SameProducer(delivered[c][1], delivered[c][2])
    /\ Len(client_queue[c]) = 1

\* the questions among the first n events put on the event channel
QuestionsUpTo(n) ==
  {published[k] : k \in {j \in 1..n : published[j].type = "human_input"}}

\* C15: a question whose human_input event was put on the event channel
\* before a client subscribed is never delivered to that client's queue.
C15_NoReplayOfPut ==
  \A c \in ClientIds :
    QuestionsUpTo(clients[c].pub_at) \cap Range(delivered[c]) = {}

\* C15, amended: a question whose human_input event the broadcaster took
\* off the event channel before a client subscribed is never delivered to
\* that client's queue.
C15_NoReplayOfBroadcast ==
  \A c \in ClientIds :
    QuestionsUpTo(clients[c].taken_at) \cap Range(delivered[c]) = {}

\* C15 witness: a client subscribed after a question had been broadcast and
\* has since been sent a later event
C15_Witness ==
  \E c \in ClientIds :
    /\ QuestionsUpTo(clients[c].taken_at) # {}
    /\ delivered[c] # <<>>

\* the subscribed observers whose queue does not receive the item taken in
\* this step: their put_nowait raised
Failed == {c \in Range(sse_clients) : client_queue'[c] = client_queue[c]}

C17_FinishedRunUntracked ==
  \A t \in TaskIds : tasks[t].pc \in Terminal => t \notin running_tasks

\* C17 witness: a run cancelled before its first step has ended, another
\* run has ended by itself, and neither is tracked
C17_Witness ==
  \E t \in TaskIds, u \in TaskIds :
    /\ tasks[t].pc = "cancelled" /\ tasks[t].rid = NoValue /\ tasks[t].answer = NoValue
    /\ tasks[u].pc \in {"completed", "failed"}
    /\ running_tasks = {}

\* the state of run t in the run state machine: start_agent creates the run
\* and launches it, so a run is Running from its start to its end
Phase(ts, t) ==
  CASE ts[t].pc = "none" -> "Pending"
    [] ts[t].pc \in {"created", "running", "asking"} -> "Running"
    [] ts[t].pc = "completed" -> "Completed"
    [] ts[t].pc = "failed" -> "Failed"
    [] ts[t].pc = "cancelled" -> "Cancelled"
    [] OTHER -> "Crashed"

Final == {"Completed", "Failed", "Cancelled"}

Moves ==
  {<<"Pending", "Running">>} \cup {<<"Running", f>> : f \in Final}

\* the events put on the event channel in this step
NewEvents ==
  {published'[k] : k \in (Len(published) + 1)..Len(published')}

\* event ev is of run t: its result, or a question it asks in this step
EventOf(ev, t) ==
  IF ev.type = "task_result" THEN ev.task_id = t
  ELSE tasks'[t].rid = ev.id

\* C18: a run changes state only along Pending -> Running -> Completed,
\* Failed or Cancelled; a run in a final state never changes again and
\* puts no event on the channel.
C18_RunStateMachine ==
  [][\A t \in TaskIds :
       /\ Phase(tasks', t) # Phase(tasks, t)
            => <<Phase(tasks, t), Phase(tasks', t)>> \in Moves
       /\ Phase(tasks, t) \in Final
            => /\ tasks'[t] = tasks[t]
               /\ \A ev \in NewEvents : ~EventOf(ev, t)]_vars

\* C18 witness: a run has completed and published its result, and the next
\* event on the channel is a question of a later run
C18_Witness ==
  \E t \in TaskIds :
    /\ Phase(tasks, t) = "Completed"
    /\ Len(published) >= 2
    /\ published[1] = TaskComplete(t, "margherita")
    /\ published[2].type = "human_input"

\* a POST /agent/start is handled in this step: it takes the next task id
Started == next_task' = next_task + 1

\* C19: every start empties the index of pending requests for all sessions:
\* after it no session has a map in the index, so no request registered
\* before the start, of whatever session or run, can be found in it.
C19_StartClearsIndex ==
  [][Started => /\ pending_requests' = EmptyMap
                /\ \A s \in Sessions :
                     \A r \in Registered(s), k \in DOMAIN pending_requests' :
                       r # k /\ r \notin DOMAIN pending_requests'[k]]_vars

\* C19 witness: a start has just emptied the index while a run of an
\* earlier start is still suspended on a request it had registered
C19_Witness ==
  \E t \in TaskIds, u \in TaskIds :
    /\ tasks[t].pc = "asking"
    /\ tasks[u].pc = "created"
    /\ pending_requests = EmptyMap
    /\ requesters # {}

Unsubscribes(c) == clients[c].pc = "streaming" /\ clients'[c].pc = "closed"

\* C21: a change of the subscriber list during a broadcast does not disturb
\* the other observers: an observer subscribed before and after a broadcast
\* gets the item exactly once; an observer that is not subscribed gets
\* nothing; unsubscribing removes just that observer's queue and is a no-op
\* on the list when the queue is no longer in it.
C21_SubscriberChangesAtomic ==
  [][\A c \in ClientIds :
       /\ (Broadcast /\ c \in Range(sse_clients) /\ c \in Range(sse_clients'))
            => client_queue'[c] = Append(client_queue[c], Head(request_queue))
       /\ c \notin Range(sse_clients)
            => /\ delivered'[c] = delivered[c]
               /\ Len(client_queue'[c]) <= Len(client_queue[c])
       /\ Unsubscribes(c)
            => /\ c \notin Range(sse_clients')
               /\ \A d \in ClientIds \ {c} :
                    d \in Range(sse_clients) <=> d \in Range(sse_clients')
               /\ c \notin Range(sse_clients) => sse_clients' = sse_clients]_vars

\* C21 witness: of two observers subscribed before the first broadcast, the
\* first has left the list without the item and its generator has ended,
\* and the second got the item once and has streamed it
C21_Witness ==
  \E c \in ClientIds, d \in Range(sse_clients) :
    /\ c < d
    /\ clients[c].pc = "closed"
    /\ clients[c].taken_at = 0 /\ clients[d].taken_at = 0
    /\ delivered[c] = <<>>
    /\ Len(delivered[d]) = 1
    /\ client_queue[d] = <<>>

\* every get_input call other than c, and its entry in the index, is the
\* same after this step
OthersUntouched(c) ==
  \A d \in CallIds \ {c} :
    /\ calls'[d] = calls[d]
    /\ Uuid(d) \in DOMAIN provider_pending
         => /\ Uuid(d) \in DOMAIN provider_pending'
            /\ provider_pending'[Uuid(d)] = provider_pending[Uuid(d)]

\* C22: with several get_input calls pending, a resolve of request r with
\* answer x reaches only the future of r: it schedules one write of x into
\* that future, the write and the wakeup that follows change only the call
\* of r, which returns the value written, and every other call stays as it
\* was, its entry in the index and its future unwritten.
C22_ResolveWakesOnlyItsCaller ==
  [][\A c \in CallIds :
       /\ \A x \in Texts :
            (ProvideResponse(Uuid(c), x) /\ Uuid(c) \in DOMAIN provider_pending)
            => /\ loop_ready' = Append(loop_ready,
                                        [cb |-> "set_result", future |-> c, value |-> x])
               /\ calls' = calls
               /\ provider_pending' = provider_pending
       /\ (LoopRunOnce /\ Head(loop_ready).future = c)
            => /\ OthersUntouched(c)
               /\ (Head(loop_ready).cb = "set_result" /\ calls[c].future = NoValue)
                    => calls'[c].future = Head(loop_ready).value
               /\ (Head(loop_ready).cb = "wakeup" /\ ~calls[c].cancel)
                    => /\ calls'[c].pc = "returned"
                       /\ calls'[c].result = calls[c].future]_vars

\* C22 witness: of two calls in the index, one has had its answer written
\* and the other is still suspended on an unwritten future
C22_Witness ==
  \E c \in CallIds, d \in CallIds :
    /\ {Uuid(c), Uuid(d)} \subseteq DOMAIN provider_pending
    /\ calls[c].pc = "waiting" /\ calls[c].future \in Texts
    /\ calls[d].pc = "waiting" /\ calls[d].future = NoValue

\* C23: a pending request leaves the index at the moment it is resolved: in
\* no reachable state does the index hold a request whose resolve has been
\* accepted.
C23_ResolvedRequestRemoved ==
  \A c \in CallIds : Accepted(c) => Uuid(c) \notin DOMAIN provider_pending

\* C24: whatever the interleaving of polls with get_input and
\* provide_response, no request is returned by more than one poll, and a
\* poll returns every pending request that no earlier poll has returned: a
\* request is returned by the first poll made while it is pending and by
\* no later one.
C24_PolledOnce ==
  /\ [](\A c \in CallIds : calls[c].polled <= 1)
  /\ [][GetPendingRequests
         => \A c \in CallIds :
              Uuid(c) \in DOMAIN provider_pending => calls'[c].polled = 1]_vars

\* C24 witness: a request that a poll has returned is still pending, with
\* its answer on the way, next to a request made after that poll
C24_Witness ==
  \E c \in CallIds, d \in CallIds :
    /\ {Uuid(c), Uuid(d)} \subseteq DOMAIN provider_pending
    /\ calls[c].polled = 1 /\ provider_pending[Uuid(c)].sent
    /\ calls[d].polled = 0 /\ ~provider_pending[Uuid(d)].sent
    /\ Accepted(c)

\* the ids of the get_input calls that are suspended at `await future`
Suspended == {Uuid(c) : c \in {d \in CallIds : calls[d].pc = "waiting"}}

\* C27: the keys of SSEInputProvider.pending_requests are exactly the ids
\* of the get_input calls that are suspended: a call inserts its id when it
\* starts and removes it when it ends, with an answer or by cancellation,
\* and no other step changes the keys.
C27_IndexIsSuspendedCalls ==
  /\ [](DOMAIN provider_pending = Suspended)
  /\ [][\A c \in CallIds :
          (Uuid(c) \in DOMAIN provider_pending) # (Uuid(c) \in DOMAIN provider_pending')
          => calls'[c].pc # calls[c].pc]_vars

\* C27 witness: one call has returned its answer, another has ended by
\* cancellation, and the index is empty again
C27_Witness ==
  \E c \in CallIds, d \in CallIds :
    /\ calls[c].pc = "returned" /\ calls[c].result \in Texts
    /\ calls[d].pc = "cancelled"
    /\ provider_pending = EmptyMap

\* the events among the frames yielded to client c, in the order sent
Sent(c) ==
  LET fs == SelectSeq(streamed[c], LAMBDA f : f # Heartbeat)
  IN [i \in 1..Len(fs) |-> fs[i].data]

\* C25: a generator that waits on its empty queue does not wait for ever:
\* unless an item arrives or the client goes, the wait ends with a frame
\* that carries no payload.  A heartbeat takes nothing from the queue: the
\* events sent so far followed by the events still queued are always the
\* events delivered to that observer, in order.
C25_HeartbeatKeepsEvents ==
  /\ [](\A c \in ClientIds : Sent(c) \o client_queue[c] = delivered[c])
  /\ [][\A c \in ClientIds :
          (clients[c].waiting /\ client_queue[c] = <<>> /\ streamed'[c] # streamed[c])
          => /\ streamed'[c] = Append(streamed[c], Frame(EmptyMap))
             /\ client_queue'[c] = client_queue[c]]_vars
  /\ \A c \in ClientIds : clients[c].waiting ~> ~clients[c].waiting

\* C25 witness: the timer fired just after an item had arrived: the
\* heartbeat was sent first and the item after it
C25_Witness ==
  \E c \in ClientIds :
    /\ Len(streamed[c]) = 2
    /\ streamed[c][1] = Heartbeat
    /\ streamed[c][2] = Frame(delivered[c][1])
    /\ clients[c].taken_at = 0

\* a human_input event with request id r has been put on the event channel
Visible(r) ==
  \E k \in DOMAIN published :
    published[k].type = "human_input" /\ published[k].id = r

\* every human_input event put on the channel in this step names a request
\* that is registered under its session when the step ends
RegisteredWhenPut ==
  \A ev \in NewEvents :
    ev.type = "human_input"
    => /\ ev.session_id \in DOMAIN pending_requests'
       /\ ev.id \in DOMAIN pending_requests'[ev.session_id]

\* C26: a request is registered before its human_input event is visible,
\* so a resolve triggered by the event misses the request only when it has
\* been resolved or cleared: a POST /respond naming a visible request that
\* is still registered finds it and takes it out of the index.
C26_RegisteredBeforeVisible ==
  /\ [][RegisteredWhenPut]_vars
  /\ [][\A r \in RequestIds, x \in Texts, s \in Sessions :
          (ProvideHumanResponse(r, x) /\ Visible(r) /\ r \in Registered(s))
          => r \notin DOMAIN pending_requests'[s]]_vars
====
